---- MODULE Spec2Model ----
(***************************************************************************)
(* Model of src/AIClipperApp.js: the React component AIClipperApp, its     *)
(* state hooks, its two asynchronous handlers (handleAnalyze,              *)
(* handleCreateClip), the completion timer of a clip job and the moment    *)
(* filter (filteredMoments).                                               *)
(*                                                                         *)
(* Text is modelled as a sequence of one-character strings, so that trim,  *)
(* toLowerCase and includes are computed character by character.  A        *)
(* JavaScript object is a function whose DOMAIN is the set of the keys     *)
(* that are present; null is the value Null.                               *)
(***************************************************************************)
EXTENDS Integers, Sequences, FiniteSets, TLC

VARIABLES
    url,          \* useState("")       line 26
    loading,      \* useState(false)    line 27
    analysis,     \* useState(null)     line 28
    selected,     \* useState(null)     line 29
    job,          \* useState(null)     line 30
    error,        \* useState("")       line 31
    filter,       \* useState("")       line 33
    aspectRatio,  \* useState("16:9")   line 34
    resolution,   \* useState("1080p")  line 35
    timers,       \* pending setTimeout callbacks, in firing order
    clock,        \* the wall clock read by Date.now(), in milliseconds
    created,      \* history: the job ids made at line 85, in order
    nAnalyze,     \* history: analyze requests that passed line 52
    requested,    \* history: the video ids of those requests, in order
    nClips,       \* history: clip submissions (calls of handleCreateClip)
    nEdits,       \* history: edits of the link box, filter box and clip options
    shown         \* the last rendering of the moment list (line 174): the
                  \* filter and moments it read and the list it displayed

vars == <<url, loading, analysis, selected, job, error, filter, aspectRatio,
          resolution, timers, clock, created, nAnalyze, requested, nClips,
          nEdits, shown>>

----------------------------------------------------------------------------
(* Bounds of the model *)

\* requests (Analisa, a moment button) and edits of the controls by the user
MaxUserEvents == 5
\* how long the clock runs while no timer is pending
MaxClock == 300
\* the granularity, in milliseconds, at which the model observes the clock
TickStep == 300
\* the longest moment sequence and filter text given to the search
MaxMoments == 2
MaxQueryLen == 2

(* Program constants: the setTimeout delays of lines 64, 84 and 91 *)

AnalyzeDelay == 900
ClipPostDelay == 700
JobDoneDelay == 1800

\* null as the value of an object-valued state (analysis, selected, job)
Null == [null |-> TRUE]

\* null as the value of a text-valued expression (a video id)
NullText == <<"(null)">>

EmptyObject == [k \in {} |-> TRUE]

----------------------------------------------------------------------------
(* Text helpers: String.prototype.trim, toLowerCase, includes *)

UpperToLower ==
    [A |-> "a", B |-> "b", C |-> "c", D |-> "d", E |-> "e", F |-> "f",
     G |-> "g", H |-> "h", I |-> "i", J |-> "j", K |-> "k", L |-> "l",
     M |-> "m", N |-> "n", O |-> "o", P |-> "p", Q |-> "q", R |-> "r",
     S |-> "s", T |-> "t", U |-> "u", V |-> "v", W |-> "w", X |-> "x",
     Y |-> "y", Z |-> "z"]

LowerChar(c) == IF c \in DOMAIN UpperToLower THEN UpperToLower[c] ELSE c

toLowerCase(s) == [i \in 1..Len(s) |-> LowerChar(s[i])]

IsSpace(c) == c = " "

RECURSIVE trimStart(_)
trimStart(s) ==
    IF s # <<>> /\ IsSpace(Head(s)) THEN trimStart(Tail(s)) ELSE s

RECURSIVE trimEnd(_)
trimEnd(s) ==
    IF s # <<>> /\ IsSpace(s[Len(s)])
    THEN trimEnd(SubSeq(s, 1, Len(s) - 1))
    ELSE s

trim(s) == trimEnd(trimStart(s))

includes(s, q) ==
    \E i \in 0..(Len(s) - Len(q)) : SubSeq(s, i + 1, i + Len(q)) = q

----------------------------------------------------------------------------
(* JavaScript objects: {...j, k: v} and the truthiness test !x *)

Spread(j) == IF j = Null THEN EmptyObject ELSE j

Merge(j, upd) ==
    [k \in (DOMAIN j) \cup (DOMAIN upd) |->
        IF k \in DOMAIN upd THEN upd[k] ELSE j[k]]

Falsy(x) == x = NullText \/ x = <<>>

----------------------------------------------------------------------------
(* The links a user can paste, as the URL parser sees them (lines 38-47):  *)
(* whether new URL(link) succeeds, u.hostname, u.searchParams.get("v")     *)
(* and u.pathname.                                                         *)

HostYoutube == <<"w", "w", "w", ".", "y", "o", "u", "t", "u", "b", "e", ".", "c", "o", "m">>
HostYoutuBe == <<"y", "o", "u", "t", "u", ".", "b", "e">>
HostOther == <<"v", "i", "m", "e", "o", ".", "c", "o", "m">>

LinkWatchA ==
    [parses |-> TRUE, hostname |-> HostYoutube, v |-> <<"a", "b", "c", "1", "2", "3">>, pathname |-> <<"/", "w", "a", "t", "c", "h">>]
LinkShortB ==
    [parses |-> TRUE, hostname |-> HostYoutuBe, pathname |-> <<"/", "x", "y", "z", "7", "8", "9">>]
LinkNoV ==
    [parses |-> TRUE, hostname |-> HostYoutube, pathname |-> <<"/", "w", "a", "t", "c", "h">>]
LinkShortEmpty ==
    [parses |-> TRUE, hostname |-> HostYoutuBe, pathname |-> <<"/">>]
LinkOtherHost ==
    [parses |-> TRUE, hostname |-> HostOther, v |-> <<"a", "b", "c", "1", "2", "3">>, pathname |-> <<"/", "w", "a", "t", "c", "h">>]
LinkGarbage ==
    [parses |-> FALSE]

\* new URL("") throws: the empty link box of line 26 does not parse
LinkEmpty == LinkGarbage

\* the links the user pastes
Links == {LinkWatchA, LinkShortB, LinkEmpty}

\* those and the links of every way extractYouTubeID finds no id
AllLinks ==
    {LinkWatchA, LinkShortB, LinkNoV, LinkShortEmpty, LinkOtherHost,
     LinkGarbage}

slice1(s) == SubSeq(s, 2, Len(s))

\* u.searchParams.get(name): null when the parameter is missing
searchParamsGet(link, name) ==
    IF name \in DOMAIN link THEN link[name] ELSE NullText

\* as extractYouTubeID, taking the whole path of a youtu.be link
extractYouTubeIDNoSlice(link) ==
    IF ~link.parses THEN NullText
    ELSE IF includes(link.hostname, <<"y", "o", "u", "t", "u", "b", "e", ".", "c", "o", "m">>) THEN searchParamsGet(link, "v")
    ELSE IF link.hostname = HostYoutuBe THEN link.pathname
    ELSE NullText

extractYouTubeID(link) ==
    IF ~link.parses THEN NullText
    ELSE IF includes(link.hostname, <<"y", "o", "u", "t", "u", "b", "e", ".", "c", "o", "m">>) THEN searchParamsGet(link, "v")
    ELSE IF link.hostname = HostYoutuBe THEN slice1(link.pathname)
    ELSE NullText

----------------------------------------------------------------------------
(* generateFakeAnalysis (lines 293-316) *)

hooks ==
    <<"Buka dengan pertanyaan kejutan", "Potong ke reaksi emosional",
      "Tampilkan fakta singkat & visual kuat">>

viralMoments ==
    << [label |-> <<"R", "e", "a", "k", "s", "i", " ", "l", "u", "c", "u">>,
        start |-> 15, end |-> 23, score |-> 88,
        tags |-> <<<<"f", "u", "n", "n", "y">>, <<"r", "e", "a", "c", "t", "i", "o", "n">>>>],
       [label |-> <<"T", "w", "i", "s", "t", " ", "m", "e", "n", "g", "e", "j", "u", "t", "k", "a", "n">>,
        start |-> 75, end |-> 85, score |-> 82,
        tags |-> <<<<"t", "w", "i", "s", "t">>, <<"s", "u", "r", "p", "r", "i", "s", "e">>>>],
       [label |-> <<"Q", "u", "o", "t", "e", " ", "k", "u", "a", "t">>,
        start |-> 34, end |-> 40, score |-> 76,
        tags |-> <<<<"q", "u", "o", "t", "e">>, <<"e", "m", "o", "t", "i", "o", "n", "a", "l">>>>],
       [label |-> <<"A", "d", "e", "g", "a", "n", " ", "s", "e", "d", "i", "h">>,
        start |-> 190, end |-> 200, score |-> 74,
        tags |-> <<<<"s", "a", "d">>, <<"e", "m", "o", "t", "i", "o", "n", "a", "l">>>>] >>

\* Math.round(60 + Math.random() * 35) ranges over 60..95; the model draws
\* the two ends of the range.
Scores == {60, 95}

generateFakeAnalysis(id, score) ==
    [id |-> id, title |-> "Judul contoh video (simulasi)",
     channel |-> "Channel Contoh", duration |-> "12:34", hooks |-> hooks,
     viralMoments |-> viralMoments, score |-> score]

----------------------------------------------------------------------------
(* Opsi Klip controls (lines 203-220) and the filter box (lines 167-170) *)

AspectRatios == {"16:9", "9:16", "1:1", "4:5"}
Resolutions == {"1080p", "720p", "480p"}

\* the controls the user operates
AspectChoices == {"16:9", "9:16"}
ResolutionChoices == {"1080p", "720p"}
Filters == {<<>>, <<" ", "S", "A", "D">>}

----------------------------------------------------------------------------
(* filteredMoments (lines 108-117) *)

\* m.label || "" and m.tags || []: a missing key reads as undefined
labelOf(m) == IF "label" \in DOMAIN m THEN m.label ELSE <<>>

tagsOf(m) == IF "tags" \in DOMAIN m THEN m.tags ELSE <<>>

\* as momentMatches, without the test of the tags
momentMatchesLabelOnly(m, q) == includes(toLowerCase(labelOf(m)), q)

momentMatches(m, q) ==
    \/ includes(toLowerCase(labelOf(m)), q)
    \/ \E i \in 1..Len(tagsOf(m)) : includes(toLowerCase(tagsOf(m)[i]), q)

\* as arrayFilter, putting each match in front of the matches after it
RECURSIVE arrayFilterUnshift(_, _)
arrayFilterUnshift(ms, q) ==
    IF ms = <<>> THEN <<>>
    ELSE IF momentMatches(Head(ms), q)
         THEN arrayFilterUnshift(Tail(ms), q) \o <<Head(ms)>>
         ELSE arrayFilterUnshift(Tail(ms), q)

RECURSIVE arrayFilter(_, _)
arrayFilter(ms, q) ==
    IF ms = <<>> THEN <<>>
    ELSE IF momentMatches(Head(ms), q)
         THEN <<Head(ms)>> \o arrayFilter(Tail(ms), q)
         ELSE arrayFilter(Tail(ms), q)

\* as filteredMomentsOf, without trim()
filteredMomentsNoTrim(a, f) ==
    IF a = Null THEN <<>>
    ELSE LET q == toLowerCase(f)
         IN  IF q = <<>> THEN a.viralMoments
             ELSE arrayFilter(a.viralMoments, q)

filteredMomentsOf(a, f) ==
    IF a = Null THEN <<>>
    ELSE LET q == toLowerCase(trim(f))
         IN  IF q = <<>> THEN a.viralMoments
             ELSE arrayFilter(a.viralMoments, q)

filteredMoments == filteredMomentsOf(analysis, filter)

\* Which array filteredMoments() returns: the literal of line 109 and the
\* result of Array.prototype.filter (line 112) are new arrays; line 111
\* returns the array that analysis.viralMoments refers to.
filteredMomentsArray(a, f) ==
    IF a = Null THEN "new array"
    ELSE LET q == toLowerCase(trim(f))
         IN  IF q = <<>> THEN "analysis.viralMoments"
             ELSE "new array"

----------------------------------------------------------------------------
(* Timers: setTimeout callbacks wait in firing order (earlier due time     *)
(* first, equal due times in order of creation).  A callback runs no       *)
(* earlier than its due time; it runs at the first clock value the model   *)
(* reaches at or after it.                                                 *)

\* as Schedule, but a timer runs before the pending ones due at the same time
ScheduleUnstable(ts, t) ==
    LET k == Cardinality({i \in 1..Len(ts) : ts[i].due < t.due})
    IN  SubSeq(ts, 1, k) \o <<t>> \o SubSeq(ts, k + 1, Len(ts))

Schedule(ts, t) ==
    LET k == Cardinality({i \in 1..Len(ts) : ts[i].due <= t.due})
    IN  SubSeq(ts, 1, k) \o <<t>> \o SubSeq(ts, k + 1, Len(ts))

HeadDue(kind) ==
    /\ timers # <<>>
    /\ Head(timers).kind = kind
    /\ Head(timers).due <= clock

DateNow == clock

\* what the user has done so far: requests and edits
UserEvents == nAnalyze + nClips + nEdits

----------------------------------------------------------------------------
(* The job object of line 86 and the completion update of line 90 *)

JobId(now) == <<"job_", now>>

StreamUrl(jobId) == <<"/api/stream/">> \o jobId \o <<".mp4">>

\* as NewJob, with the status the job would have before the backend starts
NewJobQueued(jobId, s, ar, res) ==
    [id |-> jobId, status |-> "queued", clip |-> s,
     options |-> [aspectRatio |-> ar, resolution |-> res]]

\* as NewJob, with the artifact reference filled in at creation
NewJobWithUrl(jobId, s, ar, res) ==
    [id |-> jobId, status |-> "processing", clip |-> s,
     options |-> [aspectRatio |-> ar, resolution |-> res],
     url |-> StreamUrl(jobId)]

NewJob(jobId, s, ar, res) ==
    [id |-> jobId, status |-> "processing", clip |-> s,
     options |-> [aspectRatio |-> ar, resolution |-> res]]

\* as JobDoneUpdate, without status: 'done'
JobDoneUpdateNoStatus(j, jobId) ==
    Merge(Spread(j), [url |-> StreamUrl(jobId)])

\* as JobDoneUpdate, with the options read again from the controls
JobDoneUpdateRereadOptions(j, jobId) ==
    Merge(Spread(j), [status |-> "done", url |-> StreamUrl(jobId),
                      options |-> [aspectRatio |-> aspectRatio,
                                   resolution |-> resolution]])

JobDoneUpdate(j, jobId) ==
    Merge(Spread(j), [status |-> "done", url |-> StreamUrl(jobId)])

----------------------------------------------------------------------------
Init ==
    /\ url = LinkEmpty
    /\ loading = FALSE
    /\ analysis = Null
    /\ selected = Null
    /\ job = Null
    /\ error = ""
    /\ filter = <<>>
    /\ aspectRatio = "16:9"
    /\ resolution = "1080p"
    /\ timers = <<>>
    /\ clock = 0
    /\ created = <<>>
    /\ nAnalyze = 0
    /\ requested = <<>>
    /\ nClips = 0
    /\ nEdits = 0
    /\ shown = Null

\* line 128: the link box
SetUrl(link) ==
    /\ UserEvents < MaxUserEvents
    /\ nEdits' = nEdits + 1
    /\ url' = link
    /\ UNCHANGED <<loading, analysis, selected, job, error, filter,
                   aspectRatio, resolution, timers, clock, created, nAnalyze,
                   requested, nClips, shown>>

\* handleAnalyze, lines 50-55: the link yields no id
handleAnalyzeRejected ==
    /\ Falsy(extractYouTubeID(url))
    /\ error' = "Masukkan link YouTube yang valid."
    /\ UNCHANGED <<url, loading, analysis, selected, job, filter, aspectRatio,
                   resolution, timers, clock, created, nAnalyze, requested,
                   nClips, shown, nEdits>>

\* handleAnalyze, lines 50-64: up to the await
handleAnalyze ==
    /\ UserEvents < MaxUserEvents
    /\ LET id == extractYouTubeID(url)
       IN  /\ ~Falsy(id)
           /\ error' = ""
           /\ loading' = TRUE
           /\ analysis' = Null
           /\ selected' = Null
           /\ timers' = Schedule(timers, [kind |-> "analyze",
                                          due |-> clock + AnalyzeDelay,
                                          id |-> id])
    /\ nAnalyze' = nAnalyze + 1
    /\ requested' = Append(requested, extractYouTubeID(url))
    /\ UNCHANGED <<url, job, filter, aspectRatio, resolution, clock, created,
                   nClips, shown, nEdits>>

\* handleAnalyze, lines 65-71: after the await
handleAnalyzeResume ==
    /\ HeadDue("analyze")
    /\ \E score \in Scores :
          analysis' = generateFakeAnalysis(Head(timers).id, score)
    /\ loading' = FALSE
    /\ timers' = Tail(timers)
    /\ UNCHANGED <<url, selected, job, error, filter, aspectRatio, resolution,
                   clock, created, nAnalyze, requested, nClips, shown, nEdits>>

\* line 177 (a moment button, rendered when !loading && analysis) and
\* handleCreateClip, lines 75-84: up to the await
handleCreateClip(s) ==
    /\ ~loading
    /\ analysis # Null
    /\ UserEvents < MaxUserEvents
    /\ selected' = s
    /\ loading' = TRUE
    /\ job' = Null
    /\ timers' = Schedule(timers, [kind |-> "clip",
                                   due |-> clock + ClipPostDelay,
                                   s |-> s,
                                   aspectRatio |-> aspectRatio,
                                   resolution |-> resolution])
    /\ nClips' = nClips + 1
    /\ UNCHANGED <<url, analysis, error, filter, aspectRatio, resolution,
                   clock, created, nAnalyze, requested, shown, nEdits>>

\* handleCreateClip, lines 85-96: after the await
handleCreateClipResume ==
    /\ HeadDue("clip")
    /\ LET t == Head(timers)
           jobId == JobId(DateNow)
       IN  /\ job' = NewJob(jobId, t.s, t.aspectRatio, t.resolution)
           /\ timers' = Schedule(Tail(timers), [kind |-> "done",
                                                due |-> clock + JobDoneDelay,
                                                jobId |-> jobId])
           /\ created' = Append(created, jobId)
    /\ loading' = FALSE
    /\ UNCHANGED <<url, analysis, selected, error, filter, aspectRatio,
                   resolution, clock, nAnalyze, requested, nClips, shown,
                   nEdits>>

\* lines 89-91: the completion timer
jobDoneTimer ==
    /\ HeadDue("done")
    /\ job' = JobDoneUpdate(job, Head(timers).jobId)
    /\ timers' = Tail(timers)
    /\ UNCHANGED <<url, loading, analysis, selected, error, filter,
                   aspectRatio, resolution, clock, created, nAnalyze,
                   requested, nClips, shown, nEdits>>

\* lines 167-170: the filter box, rendered when !loading && analysis
SetFilter(f) ==
    /\ UserEvents < MaxUserEvents
    /\ nEdits' = nEdits + 1
    /\ ~loading
    /\ analysis # Null
    /\ filter' = f
    /\ UNCHANGED <<url, loading, analysis, selected, job, error, aspectRatio,
                   resolution, timers, clock, created, nAnalyze, requested,
                   nClips, shown>>

\* lines 203-206
SetAspectRatio(a) ==
    /\ UserEvents < MaxUserEvents
    /\ nEdits' = nEdits + 1
    /\ aspectRatio' = a
    /\ UNCHANGED <<url, loading, analysis, selected, job, error, filter,
                   resolution, timers, clock, created, nAnalyze, requested,
                   nClips, shown>>

\* lines 211-220
SetResolution(r) ==
    /\ UserEvents < MaxUserEvents
    /\ nEdits' = nEdits + 1
    /\ resolution' = r
    /\ UNCHANGED <<url, loading, analysis, selected, job, error, filter,
                   aspectRatio, timers, clock, created, nAnalyze, requested,
                   nClips, shown>>

\* Time passes, one TickStep at a time.  A callback that is due runs before
\* more time passes; with nothing pending, time passes up to MaxClock.
Tick ==
    /\ \/ timers = <<>> /\ clock < MaxClock
       \/ timers # <<>> /\ Head(timers).due > clock
    /\ clock' = clock + TickStep
    /\ UNCHANGED <<url, loading, analysis, selected, job, error, filter,
                   aspectRatio, resolution, timers, created, nAnalyze,
                   requested, nClips, shown, nEdits>>

Next ==
    \/ \E link \in Links : SetUrl(link)
    \/ handleAnalyzeRejected
    \/ handleAnalyze
    \/ handleAnalyzeResume
    \/ \E i \in 1..Len(filteredMoments) : handleCreateClip(filteredMoments[i])
    \/ handleCreateClipResume
    \/ jobDoneTimer
    \/ \E f \in Filters : SetFilter(f)
    \/ \E a \in AspectChoices : SetAspectRatio(a)
    \/ \E r \in ResolutionChoices : SetResolution(r)
    \/ Tick

Spec == Init /\ [][Next]_vars

\* The link box takes any link; the filter box and the clip options are
\* left alone.
LinkNext ==
    \/ \E link \in AllLinks : SetUrl(link)
    \/ handleAnalyzeRejected
    \/ handleAnalyze
    \/ handleAnalyzeResume
    \/ \E i \in 1..Len(filteredMoments) : handleCreateClip(filteredMoments[i])
    \/ handleCreateClipResume
    \/ jobDoneTimer
    \/ Tick

LinkSpec == Init /\ [][LinkNext]_vars

\* Timers and awaited steps always come to run, and time passes.
FairSpec ==
    /\ Spec
    /\ WF_vars(Tick)
    /\ WF_vars(handleAnalyzeResume)
    /\ WF_vars(handleCreateClipResume)
    /\ WF_vars(jobDoneTimer)

----------------------------------------------------------------------------
(* Reading the job slot *)

HasJob == job # Null

Has(j, k) == k \in DOMAIN j

StatusOf(j) == IF Has(j, "status") THEN j.status ELSE "undefined"

IsDone(j) == j # Null /\ StatusOf(j) = "done"

IsProcessing(j) == j # Null /\ StatusOf(j) = "processing"

PendingKinds == {timers[i].kind : i \in 1..Len(timers)}

----------------------------------------------------------------------------
(* C1.  Once a job is done, no later event changes its status or its       *)
(* resultRef (url): a step from a done job to a job with the same id       *)
(* leaves it done with the same url.                                       *)
C1_TerminalImmutable ==
    [][(/\ IsDone(job) /\ job' # Null
        /\ Has(job, "id") /\ Has(job', "id") /\ job'.id = job.id)
       => (StatusOf(job') = "done" /\ job'.url = job.url)]_vars

(* C2.  A completion is applied only to the job of its own submission:     *)
(* whenever the job is done, it has an id and its url is the artifact      *)
(* reference built from that id.                                           *)
C2_CompletionOwnJob ==
    IsDone(job) => (Has(job, "id") /\ job.url = StreamUrl(job.id))

C4_ResultRefIffDone ==
    HasJob => /\ Has(job, "url") <=> StatusOf(job) = "done"
              /\ Has(job, "error") => StatusOf(job) = "failed"

C4_Witness ==
    IsDone(job) /\ Has(job, "url") /\ Has(job, "id")

C6_JobOptionsEnumerated ==
    HasJob => /\ Has(job, "options")
              /\ job.options.aspectRatio \in AspectRatios
              /\ job.options.resolution \in Resolutions

(* C7.  No two submissions receive the same job id.                        *)
C7_FreshIds ==
    \A i, j \in 1..Len(created) : i # j => created[i] # created[j]

(* C8.  Every step other than the creation of a new job (the completion    *)
(* timer, a change of aspect ratio or resolution, an analysis run) leaves  *)
(* the id, the moment (clip) and the options of the job in the slot        *)
(* unchanged.                                                              *)
C8_JobFrame ==
    [][(job # Null /\ job' # Null /\ created' = created)
       => \A k \in {"id", "clip", "options"} :
             /\ Has(job', k) <=> Has(job, k)
             /\ Has(job, k) => job'[k] = job[k]]_vars

\* a done job whose options differ from the controls, during a later
\* analysis run
C8_Witness ==
    /\ IsDone(job) /\ Has(job, "options")
    /\ job.options.aspectRatio # aspectRatio
    /\ loading /\ analysis = Null

----------------------------------------------------------------------------
(* The moment search on its own: filteredMoments() applied to bounded      *)
(* moment sequences and filter texts.                                      *)

QueryChars == <<"a", "b", "A", " ">>

\* moments with and without label and tags; tags are lowercase, as the
\* analysis produces them (lines 301-304)
SampleMoments ==
    << [label |-> <<"A", "b">>, start |-> 15, end |-> 23, score |-> 88,
        tags |-> <<>>],
       [label |-> <<"b", " ", "a">>, start |-> 75, end |-> 85, score |-> 82,
        tags |-> << <<"a", "a">> >>],
       [start |-> 34, end |-> 40, score |-> 76,
        tags |-> << <<"b">>, <<"a", "b">> >>],
       [label |-> <<"B">>, start |-> 190, end |-> 200, score |-> 74],
       [label |-> <<>>, start |-> 0, end |-> 5, score |-> 50,
        tags |-> << <<"a", " ", "b">> >>] >>

IndexSeqs(n, k) == UNION {[1..len -> 1..k] : len \in 0..n}

MomentsAt(idx) == [i \in 1..Len(idx) |-> SampleMoments[idx[i]]]

QueryAt(idx) == [i \in 1..Len(idx) |-> QueryChars[idx[i]]]

AnalysisWith(ms) ==
    [generateFakeAnalysis(<<"a", "b", "c", "1", "2", "3">>, 95)
        EXCEPT !.viralMoments = ms]

SearchInit ==
    /\ url = LinkEmpty
    /\ loading = FALSE
    /\ \E idx \in IndexSeqs(MaxMoments, Len(SampleMoments)) :
          analysis = AnalysisWith(MomentsAt(idx))
    /\ selected = Null
    /\ job = Null
    /\ error = ""
    /\ \E idx \in IndexSeqs(MaxQueryLen, Len(QueryChars)) :
          filter = QueryAt(idx)
    /\ aspectRatio = "16:9"
    /\ resolution = "1080p"
    /\ timers = <<>>
    /\ clock = 0
    /\ created = <<>>
    /\ nAnalyze = 0
    /\ requested = <<>>
    /\ nClips = 0
    /\ nEdits = 0
    /\ shown = Null

\* line 174: the moment list is rendered from filteredMoments()
RenderMoments ==
    /\ ~loading
    /\ analysis # Null
    /\ shown' = [query |-> filter, moments |-> analysis.viralMoments,
                 result |-> filteredMoments,
                 array |-> filteredMomentsArray(analysis, filter)]
    /\ UNCHANGED <<url, loading, analysis, selected, job, error, filter,
                   aspectRatio, resolution, timers, clock, created, nAnalyze,
                   requested, nClips, nEdits>>

\* the search applied to its own result, with the same filter
SearchTwice ==
    /\ ~loading
    /\ analysis # Null
    /\ LET first == filteredMoments
           second == filteredMomentsOf([analysis EXCEPT !.viralMoments = first],
                                       filter)
       IN  shown' = [query |-> filter, moments |-> analysis.viralMoments,
                     result |-> first,
                     array |-> filteredMomentsArray(analysis, filter),
                     again |-> second]
    /\ UNCHANGED <<url, loading, analysis, selected, job, error, filter,
                   aspectRatio, resolution, timers, clock, created, nAnalyze,
                   requested, nClips, nEdits>>

SearchNext == RenderMoments \/ SearchTwice

SearchSpec == SearchInit /\ [][SearchNext]_vars

----------------------------------------------------------------------------
(* The search contract, stated without the code's operators *)

IsBlank(q) == \A i \in 1..Len(q) : q[i] = " "

\* q occurs in s at some offset
IsSubstring(q, s) ==
    \E k \in 0..Len(s) :
        \A p \in 1..Len(q) : k + p <= Len(s) /\ s[k + p] = q[p]

Normalized(q) == toLowerCase(trim(q))

ContractMatch(m, q) ==
    \/ IsSubstring(Normalized(q),
                   toLowerCase(IF Has(m, "label") THEN m.label ELSE <<>>))
    \/ /\ Has(m, "tags")
       /\ \E i \in 1..Len(m.tags) : IsSubstring(Normalized(q), m.tags[i])

MatchingIndices(ms, q) == {i \in 1..Len(ms) : ContractMatch(ms[i], q)}

\* the k-th smallest element of a set of indices
NthOf(S, k) == CHOOSE i \in S : Cardinality({j \in S : j < i}) = k - 1

(* C9.  For a query that is empty or only whitespace, the search returns   *)
(* the input sequence itself: the same moments in the same order.          *)
C9_BlankQueryIdentity ==
    (shown # Null /\ IsBlank(shown.query)) => shown.result = shown.moments

C9_Witness ==
    /\ shown # Null
    /\ shown.query = <<" ", " ">>
    /\ Len(shown.moments) = 2
    /\ shown.moments[1] # shown.moments[2]

(* C10.  For a non-empty query, the search returns exactly the moments     *)
(* that match (the trimmed, lowercased query is a substring of the         *)
(* lowercased label or of a tag), in their input order.                    *)
C10_ExactStableFilter ==
    (shown # Null /\ Len(shown.query) > 0) =>
        LET idx == MatchingIndices(shown.moments, shown.query)
        IN  /\ Len(shown.result) = Cardinality(idx)
            /\ \A k \in 1..Len(shown.result) :
                  shown.result[k] = shown.moments[NthOf(idx, k)]

C10_Witness ==
    /\ shown # Null
    /\ shown.query = <<"A", " ">>
    /\ Len(shown.moments) = 2
    /\ Len(shown.result) = 1
    /\ shown.result[1] = shown.moments[2]
    /\ ~Has(shown.result[1], "label")

(* C11.  The search is idempotent: applied to its own result with the same *)
(* query, it returns that result again.                                    *)
C11_SearchIdempotent ==
    (shown # Null /\ Has(shown, "again")) => shown.again = shown.result

C11_Witness ==
    /\ shown # Null /\ Has(shown, "again")
    /\ shown.query = <<"b">>
    /\ Len(shown.moments) = 2
    /\ Len(shown.result) = 2
    /\ shown.result[1] # shown.result[2]
    /\ shown.again = shown.result

(* C12.  The search changes nothing of its source and never returns the    *)
(* source array itself, also for an empty query: a rendering leaves the    *)
(* analysis and its moments as they were, and the array it got is a new    *)
(* one.                                                                    *)
C12_NeverAlias ==
    shown # Null =>
        /\ analysis.viralMoments = shown.moments
        /\ shown.array # "analysis.viralMoments"

-----------------------------------------------------------------------------
(* The score explanation (lines 100-105), shown beside the score (line 151) *)

MaxScore == 100

\* The dash of the source's texts is written "--".

\* as explainScore, with strict comparisons
explainScoreStrict(score) ==
    IF score > 85 THEN "Sangat tinggi -- cocok untuk hook dan viral."
    ELSE IF score > 70
         THEN "Tinggi -- berpotensi viral dengan distribusi yang baik."
    ELSE IF score > 50 THEN "Sedang -- butuh editing/hook kuat."
    ELSE "Rendah -- butuh bahan tambahan atau narasi."

explainScore(score) ==
    IF score >= 85 THEN "Sangat tinggi -- cocok untuk hook dan viral."
    ELSE IF score >= 70
         THEN "Tinggi -- berpotensi viral dengan distribusi yang baik."
    ELSE IF score >= 50 THEN "Sedang -- butuh editing/hook kuat."
    ELSE "Rendah -- butuh bahan tambahan atau narasi."

\* an analysis with any integer score of the range is on screen
ScoreInit ==
    /\ url = LinkWatchA
    /\ loading = FALSE
    /\ \E s \in 0..MaxScore :
          analysis = generateFakeAnalysis(extractYouTubeID(LinkWatchA), s)
    /\ selected = Null
    /\ job = Null
    /\ error = ""
    /\ filter = <<>>
    /\ aspectRatio = "16:9"
    /\ resolution = "1080p"
    /\ timers = <<>>
    /\ clock = 0
    /\ created = <<>>
    /\ nAnalyze = 0
    /\ requested = <<>>
    /\ nClips = 0
    /\ nEdits = 0
    /\ shown = Null

\* lines 150-151: the score and its explanation are rendered
RenderScore ==
    /\ ~loading
    /\ analysis # Null
    /\ shown' = [score |-> analysis.score,
                 explanation |-> explainScore(analysis.score)]
    /\ UNCHANGED <<url, loading, analysis, selected, job, error, filter,
                   aspectRatio, resolution, timers, clock, created, nAnalyze,
                   requested, nClips, nEdits>>

ScoreNext == RenderScore

ScoreSpec == ScoreInit /\ [][ScoreNext]_vars

\* the four bands of the score contract, lowest first
ScoreBands ==
    << [from |-> 0,  label |-> "Rendah -- butuh bahan tambahan atau narasi."],
       [from |-> 50, label |-> "Sedang -- butuh editing/hook kuat."],
       [from |-> 70,
        label |-> "Tinggi -- berpotensi viral dengan distribusi yang baik."],
       [from |-> 85, label |-> "Sangat tinggi -- cocok untuk hook dan viral."] >>

\* band b holds the scores from its lower boundary up to the next band's
InBand(s, b) ==
    /\ s >= ScoreBands[b].from
    /\ b < Len(ScoreBands) => s < ScoreBands[b + 1].from

(* C13.  For an integer score of the range, exactly one of the four bands  *)
(* applies, and it is the one whose inclusive lower boundary (85, 70, 50,  *)
(* 0) the score reaches without reaching the next.                         *)
C13_ScoreBands ==
    shown # Null =>
        /\ Cardinality({b \in 1..Len(ScoreBands) :
                           shown.explanation = ScoreBands[b].label}) = 1
        /\ \A b \in 1..Len(ScoreBands) :
              shown.explanation = ScoreBands[b].label <=> InBand(shown.score, b)

C13_Witness ==
    /\ shown # Null
    /\ shown.score = 85
    /\ shown.explanation = ScoreBands[4].label

-----------------------------------------------------------------------------
(* The loading flag and overlapping requests *)

(* C14.  loading is true in every state in which an analyze or a clip      *)
(* request is pending; the completion of one request does not turn it off  *)
(* while another is in flight.                                             *)
C14_LoadingWhilePending ==
    ({"analyze", "clip"} \cap PendingKinds # {}) => loading

(* C15.  With several analyze requests overlapping, once all of them have  *)
(* completed the analysis on screen is the one of the video requested      *)
(* last: an older request's result does not replace a newer one's.         *)
C15_LatestAnalysisShown ==
    (requested # <<>> /\ "analyze" \notin PendingKinds) =>
        /\ analysis # Null
        /\ analysis.id = requested[Len(requested)]

\* two requests for different videos, the second made before the first's
\* wait ended, have both completed
C15_Witness ==
    /\ requested = <<extractYouTubeID(LinkWatchA), extractYouTubeID(LinkShortB)>>
    /\ clock < 2 * AnalyzeDelay
    /\ "analyze" \notin PendingKinds
    /\ analysis # Null
    /\ analysis.id = extractYouTubeID(LinkShortB)

-----------------------------------------------------------------------------
(* Links without a video id *)

InvalidLinkMessage == "Masukkan link YouTube yang valid."

\* the links the contract names as having no video id
NoVideoId(link) ==
    \/ ~link.parses
    \/ /\ link.parses
       /\ LET youtube == IsSubstring(<<"y", "o", "u", "t", "u", "b", "e", ".",
                                       "c", "o", "m">>, link.hostname)
              youtuBe == link.hostname = <<"y", "o", "u", "t", "u", ".", "b", "e">>
          IN  \/ ~youtube /\ ~youtuBe
              \/ youtube /\ ~Has(link, "v")
              \/ youtuBe /\ Len(link.pathname) <= 1

(* C16.  While the link in the box has no video id, no analyze request is  *)
(* started, and pressing Analisa only sets the error message: the          *)
(* analysis, the selected moment, the job, the loading flag and the        *)
(* pending requests stay as they are.                                      *)
C16_InvalidLinkRejected ==
    [][NoVideoId(url) =>
          /\ requested' = requested
          /\ nAnalyze' = nAnalyze
          /\ error' # error =>
                /\ error' = InvalidLinkMessage
                /\ analysis' = analysis
                /\ selected' = selected
                /\ job' = job
                /\ loading' = loading
                /\ timers' = timers]_vars

\* a rejection with an analysis, a selected moment and a job on screen
C16_Witness ==
    /\ url = LinkShortEmpty
    /\ error = InvalidLinkMessage
    /\ analysis # Null
    /\ selected # Null
    /\ HasJob
    /\ ~loading

====
